---- MODULE Spec2Model ----
(***************************************************************************)
(* A model of lib/Target/RISCV/RISCVInstrInfo.cpp: the branch analysis,    *)
(* removal, insertion and reversal of RISCVInstrInfo, and loadImmediate.   *)
(*                                                                         *)
(* A basic block is the sequence of its instructions; an instruction is an *)
(* opcode with its explicit operands; an iterator is a 1-based position,   *)
(* MBB.end() being Len(MBB) + 1 and MBB.begin() being 1.                   *)
(*                                                                         *)
(* assert(...) and llvm_unreachable(...) are modelled as they behave in a  *)
(* build with assertions: the compilation aborts with the message; the     *)
(* variable fatal then holds that message and no operation runs any more.  *)
(***************************************************************************)
EXTENDS Integers, Sequences, FiniteSets, TLC

VARIABLES
  MBB,          \* the block's instructions, in order
  TBB, FBB,     \* the caller's true and false target (NoMBB when unset)
  Cond,         \* the caller's condition tuple (a sequence of operands)
  ret,          \* <<v>> when the last operation returned v, else <<>>
  fatal,        \* NoFatal, or the message of the assertion that aborted
  call,         \* the last operation called, with its arguments on entry
  I, Count,     \* RemoveBranch's iterator and counter while its loop runs
  Reg,          \* loadImmediate's output register *Reg
  NumVirtRegs   \* the virtual registers the function has created so far

vars == <<MBB, TBB, FBB, Cond, ret, fatal, call, I, Count, Reg, NumVirtRegs>>

(***************************************************************************)
(* Bounds of the model.                                                    *)
(***************************************************************************)
MaxInstrs == 2        \* longest block built freely for AnalyzeBranch
MaxFill == 1          \* instructions placed around two conditional branches
MaxInserted == 1      \* longest block InsertBranch builds
MaxRemoveLen == 3     \* longest block RemoveBranch is run on
MaxLoads == 1         \* loadImmediate calls on one block
ImmSpread == 1        \* values tried on each side of every range boundary

(***************************************************************************)
(* Operands, instructions, blocks.                                         *)
(***************************************************************************)
NoMBB == "null"
NoFatal == "none"
NoRet == <<>>
Ret(v) == <<v>>
NoCall == [op |-> "none"]
VirtReg(n) == [vreg |-> n]     \* the n-th virtual register, n >= 1
NoReg == VirtReg(0)

Blocks == {"L1", "L2"}
LayoutSuccessor == "L2"
Regs == {"r1", "r2"}

CreateReg(r) == [kind |-> "reg", val |-> r]
CreateImm(v) == [kind |-> "imm", val |-> v]
CreateMBB(b) == [kind |-> "mbb", val |-> b]

isMBB(MO) == MO.kind = "mbb"
getMBB(MO) == MO.val
getImm(MO) == MO.val
getReg(MO) == MO.val

BuildMI(Opcode, Ops) == [Opcode |-> Opcode, Ops |-> Ops]
getOperand(MI, i) == MI.Ops[i + 1]
getNumExplicitOperands(MI) == Len(MI.Ops)
isDebugValue(MI) == MI.Opcode = "DBG_VALUE"

\* MachineBasicBlock::isLayoutSuccessor: B follows the block in the layout.
isLayoutSuccessor(B) == B = LayoutSuccessor

(***************************************************************************)
(* Condition codes.  The values of the CCMASK_ constants are not part of   *)
(* the file; the switch statements that use the ten predicate codes as     *)
(* case labels need them pairwise distinct.  A code is modelled as the set *)
(* of the masks or-ed together, and | as union.                            *)
(***************************************************************************)
CCMASK_ANY == {"ANY"}
CCMASK_CMP_EQ == {"EQ"}
CCMASK_CMP_NE == {"NE"}
CCMASK_CMP_LT == {"LT"}
CCMASK_CMP_GE == {"GE"}
CCMASK_CMP_GT == {"GT"}
CCMASK_CMP_LE == {"LE"}
CCMASK_CMP_UO == {"UO"}
CCOr(a, b) == a \cup b

CondBranchOpcodes ==
  {"BEQ", "BNE", "BLT", "BLTU", "BGE", "BGEU", "BGT", "BGTU", "BLE", "BLEU"}

\* TargetInstrInfo::isUnpredicatedTerminator: no RISCV instruction is
\* predicated, so this is MI->isTerminator(): branches, jumps and returns.
isUnpredicatedTerminator(MI) ==
  MI.Opcode \in CondBranchOpcodes \cup {"J", "JALR", "RET"}

NotABranch == [isBranch |-> FALSE]
Branch(c, t) == [isBranch |-> TRUE, Cond |-> c, Target |-> t]

isBranch_BLTasGE(MI) ==
  LET op == MI.Opcode IN
  CASE op \in {"J", "JAL", "JALR"} -> Branch(CCMASK_ANY, getOperand(MI, 0))
    [] op = "BEQ"  -> Branch(CCMASK_CMP_EQ, getOperand(MI, 2))
    [] op = "BNE"  -> Branch(CCMASK_CMP_NE, getOperand(MI, 2))
    [] op = "BLT"  -> Branch(CCMASK_CMP_GE, getOperand(MI, 2))
    [] op = "BLTU" -> Branch(CCOr(CCMASK_CMP_LT, CCMASK_CMP_UO), getOperand(MI, 2))
    [] op = "BGE"  -> Branch(CCMASK_CMP_GE, getOperand(MI, 2))
    [] op = "BGEU" -> Branch(CCOr(CCMASK_CMP_GE, CCMASK_CMP_UO), getOperand(MI, 2))
    [] op = "BGT"  -> Branch(CCMASK_CMP_GT, getOperand(MI, 2))
    [] op = "BGTU" -> Branch(CCOr(CCMASK_CMP_GT, CCMASK_CMP_UO), getOperand(MI, 2))
    [] op = "BLE"  -> Branch(CCMASK_CMP_LE, getOperand(MI, 2))
    [] op = "BLEU" -> Branch(CCOr(CCMASK_CMP_LE, CCMASK_CMP_UO), getOperand(MI, 2))
    [] OTHER -> NotABranch

isBranch(MI) ==
  LET op == MI.Opcode IN
  CASE op \in {"J", "JAL", "JALR"} -> Branch(CCMASK_ANY, getOperand(MI, 0))
    [] op = "BEQ"  -> Branch(CCMASK_CMP_EQ, getOperand(MI, 2))
    [] op = "BNE"  -> Branch(CCMASK_CMP_NE, getOperand(MI, 2))
    [] op = "BLT"  -> Branch(CCMASK_CMP_LT, getOperand(MI, 2))
    [] op = "BLTU" -> Branch(CCOr(CCMASK_CMP_LT, CCMASK_CMP_UO), getOperand(MI, 2))
    [] op = "BGE"  -> Branch(CCMASK_CMP_GE, getOperand(MI, 2))
    [] op = "BGEU" -> Branch(CCOr(CCMASK_CMP_GE, CCMASK_CMP_UO), getOperand(MI, 2))
    [] op = "BGT"  -> Branch(CCMASK_CMP_GT, getOperand(MI, 2))
    [] op = "BGTU" -> Branch(CCOr(CCMASK_CMP_GT, CCMASK_CMP_UO), getOperand(MI, 2))
    [] op = "BLE"  -> Branch(CCMASK_CMP_LE, getOperand(MI, 2))
    [] op = "BLEU" -> Branch(CCOr(CCMASK_CMP_LE, CCMASK_CMP_UO), getOperand(MI, 2))
    [] OTHER -> NotABranch

(***************************************************************************)
(* AnalyzeBranch.  The loop's state is the record st: the block, the       *)
(* iterator I, and the three in-out parameters.  Each operator below is    *)
(* one arm of the loop body and yields the state the next iteration starts *)
(* from, or the function's result.                                         *)
(***************************************************************************)
Return(r, st) ==
  [ret |-> Ret(r), fatal |-> NoFatal,
   MBB |-> st.MBB, TBB |-> st.TBB, FBB |-> st.FBB, Cond |-> st.Cond]
Abort(msg, st) ==
  [ret |-> NoRet, fatal |-> msg,
   MBB |-> st.MBB, TBB |-> st.TBB, FBB |-> st.FBB, Cond |-> st.Cond]

\* The instructions before position p, those from p on erased.
EraseFrom(B, p) == SubSeq(B, 1, p - 1)

\* Lines 106-131 with the fall-through jump kept in the block.
HandleUnconditional_KeepJump(st, J, ThisTarget, AllowModify) ==
  IF ~AllowModify
  THEN [st EXCEPT !.I = J, !.TBB = getMBB(ThisTarget)]
  ELSE IF isLayoutSuccessor(getMBB(ThisTarget))
       THEN [MBB |-> EraseFrom(st.MBB, J + 1), I |-> J,
             TBB |-> NoMBB, FBB |-> NoMBB, Cond |-> <<>>]
       ELSE [MBB |-> EraseFrom(st.MBB, J + 1), I |-> J,
             TBB |-> getMBB(ThisTarget), FBB |-> NoMBB, Cond |-> <<>>]

\* if (ThisCond == CCMASK_ANY) { ... }: the unconditional branch at J.
HandleUnconditional(st, J, ThisTarget, AllowModify) ==
  IF ~AllowModify
  THEN [st EXCEPT !.I = J, !.TBB = getMBB(ThisTarget)]
  ELSE \* everything after the jump is erased, Cond cleared, FBB = 0
       IF isLayoutSuccessor(getMBB(ThisTarget))
       THEN \* the jump is erased too and I = MBB.end()
            [MBB |-> EraseFrom(st.MBB, J), I |-> J,
             TBB |-> NoMBB, FBB |-> NoMBB, Cond |-> <<>>]
       ELSE [MBB |-> EraseFrom(st.MBB, J + 1), I |-> J,
             TBB |-> getMBB(ThisTarget), FBB |-> NoMBB, Cond |-> <<>>]

\* Lines 138-141 pushing the code alone.
PushCond_CodeOnly(ThisCond, MI) == <<CreateImm(ThisCond)>>

\* Cond.push_back(CreateImm(ThisCond)), then every explicit operand of I.
PushCond(ThisCond, MI) ==
  <<CreateImm(ThisCond)>> \o
  [i \in 1..getNumExplicitOperands(MI) |-> getOperand(MI, i - 1)]

\* if (Cond.empty()) { ... }: the first conditional branch from the bottom.
HandleFirstConditional(st, J, ThisCond, ThisTarget) ==
  [st EXCEPT !.I = J,
             !.FBB = st.TBB,
             !.TBB = getMBB(ThisTarget),
             !.Cond = PushCond(ThisCond, st.MBB[J])]

\* Line 152 never seeing a difference.
DifferentDestination_Never(TBBnow, ThisTarget) == FALSE

\* if (TBB != ThisTarget->getMBB()) return true;
DifferentDestination(TBBnow, ThisTarget) == TBBnow # getMBB(ThisTarget)

RECURSIVE AnalyzeLoop(_, _)
AnalyzeLoop(st, AllowModify) ==
  IF st.I = 1 THEN Return(FALSE, st)
  ELSE
    LET J == st.I - 1
        MI == st.MBB[J]
    IN
    IF isDebugValue(MI) THEN AnalyzeLoop([st EXCEPT !.I = J], AllowModify)
    ELSE IF ~isUnpredicatedTerminator(MI) THEN Return(FALSE, st)
    ELSE
      LET br == isBranch(MI) IN
      IF ~br.isBranch THEN Return(TRUE, st)
      ELSE IF ~isMBB(br.Target) THEN Return(TRUE, st)
      ELSE IF br.Cond = CCMASK_ANY
        THEN AnalyzeLoop(HandleUnconditional(st, J, br.Target, AllowModify),
                         AllowModify)
      ELSE IF st.Cond = <<>>
        THEN AnalyzeLoop(HandleFirstConditional(st, J, br.Cond, br.Target),
                         AllowModify)
      ELSE IF Len(st.Cond) > 4 THEN Abort("Cond.size() <= 4", st)
      ELSE IF st.TBB = NoMBB THEN Abort("TBB", st)
      ELSE IF DifferentDestination(st.TBB, br.Target) THEN Return(TRUE, st)
      ELSE \* same or different code: the branch is left alone
           AnalyzeLoop([st EXCEPT !.I = J], AllowModify)

AnalyzeBranch(B, T, F, C, AllowModify) ==
  AnalyzeLoop([MBB |-> B, I |-> Len(B) + 1, TBB |-> T, FBB |-> F, Cond |-> C],
              AllowModify)

(***************************************************************************)
(* The instructions the blocks of the analysis are built from.             *)
(***************************************************************************)
CondBranch(op, a, b, T) ==
  BuildMI(op, <<CreateReg(a), CreateReg(b), CreateMBB(T)>>)
Jump(T) == BuildMI("J", <<CreateMBB(T)>>)
IndirectJump == BuildMI("JALR", <<CreateReg("r1")>>)
Return_ == BuildMI("RET", <<>>)
Plain == BuildMI("ADDI", <<CreateReg("r1"), CreateReg("r2"), CreateImm(0)>>)
DebugValue == BuildMI("DBG_VALUE", <<CreateReg("r1")>>)

AnalyzeInstrs ==
  {CondBranch(op, "r1", "r2", T) : op \in CondBranchOpcodes, T \in Blocks}
  \cup {Jump(T) : T \in Blocks}
  \cup {IndirectJump, Return_, Plain, DebugValue}

Fresh ==
  /\ TBB = NoMBB /\ FBB = NoMBB /\ Cond = <<>>
  /\ ret = NoRet /\ fatal = NoFatal /\ call = NoCall
  /\ I = 0 /\ Count = 0 /\ Reg = NoReg /\ NumVirtRegs = 0

InitAnalyze == MBB = <<>> /\ Fresh

\* The caller appends an instruction to the block it is building.
BuildAnalyze ==
  /\ fatal = NoFatal
  /\ Len(MBB) < MaxInstrs
  /\ \E MI \in AnalyzeInstrs : MBB' = Append(MBB, MI)
  /\ TBB' = NoMBB /\ FBB' = NoMBB /\ Cond' = <<>>
  /\ ret' = NoRet /\ call' = NoCall
  /\ UNCHANGED <<fatal, I, Count, Reg, NumVirtRegs>>

\* The caller declares TBB = 0, FBB = 0 and an empty Cond, and calls
\* AnalyzeBranch(MBB, TBB, FBB, Cond, AllowModify).
AnalyzeBranchCall ==
  /\ fatal = NoFatal
  /\ \E AllowModify \in BOOLEAN :
       LET r == AnalyzeBranch(MBB, NoMBB, NoMBB, <<>>, AllowModify) IN
       /\ MBB' = r.MBB /\ TBB' = r.TBB /\ FBB' = r.FBB /\ Cond' = r.Cond
       /\ ret' = r.ret /\ fatal' = r.fatal
       /\ call' = [op |-> "AnalyzeBranch", MBB |-> MBB,
                   AllowModify |-> AllowModify]
  /\ UNCHANGED <<I, Count, Reg, NumVirtRegs>>

NextAnalyze == BuildAnalyze \/ AnalyzeBranchCall

SpecAnalyze == InitAnalyze /\ [][NextAnalyze]_vars

(***************************************************************************)
(* Blocks holding two conditional branches, of any two opcodes and to any  *)
(* two blocks, with up to MaxFill other instructions before, between and   *)
(* after them.                                                             *)
(***************************************************************************)
Fillers == {Jump(T) : T \in Blocks} \cup {IndirectJump, Return_, Plain, DebugValue}
CondBranches ==
  {CondBranch(op, "r1", "r2", T) : op \in CondBranchOpcodes, T \in Blocks}

\* The block of length Len(f) + 2 with c1 at p, c2 at q and f in the rest.
Interleave(c1, c2, f, p, q) ==
  [i \in 1..(Len(f) + 2) |->
     IF i = p THEN c1
     ELSE IF i = q THEN c2
     ELSE f[i - (IF i > p THEN 1 ELSE 0) - (IF i > q THEN 1 ELSE 0)]]

InitTwoCond ==
  /\ \E n \in 0..MaxFill :
       \E c1 \in CondBranches, c2 \in CondBranches, f \in [1..n -> Fillers],
          p \in 1..(n + 2), q \in 1..(n + 2) :
         /\ p < q
         /\ MBB = Interleave(c1, c2, f, p, q)
  /\ Fresh

NextTwoCond == AnalyzeBranchCall

SpecTwoCond == InitTwoCond /\ [][NextTwoCond]_vars

(***************************************************************************)
(* The trailing terminator run of a block: the positions from which on     *)
(* every instruction is a terminator or a debug entry.                     *)
(***************************************************************************)
InRun(B, i) ==
  /\ i \in 1..Len(B)
  /\ \A j \in i..Len(B) : isDebugValue(B[j]) \/ isUnpredicatedTerminator(B[j])

IsCondBranchToBlock(MI) ==
  /\ isBranch(MI).isBranch
  /\ isBranch(MI).Cond # CCMASK_ANY
  /\ isMBB(isBranch(MI).Target)

IsJumpToBlock(MI) ==
  /\ isBranch(MI).isBranch
  /\ isBranch(MI).Cond = CCMASK_ANY
  /\ isMBB(isBranch(MI).Target)

Dest(MI) == getMBB(isBranch(MI).Target)

Analyzed == call.op = "AnalyzeBranch" /\ fatal = NoFatal

\* The run of B is exactly the instructions from position s on, debug
\* entries above s aside.
RunIsSuffixFrom(B, s) ==
  /\ s \in 1..Len(B)
  /\ \A i \in s..Len(B) : isUnpredicatedTerminator(B[i])
  /\ \A i \in 1..(s - 1) : InRun(B, i) => isDebugValue(B[i])

(***************************************************************************)
(* Claims about AnalyzeBranch.                                             *)
(***************************************************************************)
\* The block ends with  op r1, r2, L1 ; J L2  and these two are its run.
EndsWithBranchThenJump(B, op, r1, r2, L1, L2) ==
  /\ Len(B) >= 2
  /\ B[Len(B) - 1] = CondBranch(op, r1, r2, L1)
  /\ B[Len(B)] = Jump(L2)
  /\ RunIsSuffixFrom(B, Len(B) - 1)

\* C1 as stated: on a block whose trailing terminators are BLT r1, r2, L1
\* then J L2, AnalyzeBranch without modification reports the block analyzable
\* with TBB = L1, FBB = L2 and the condition tuple exactly {LT, r1, r2}.
C1_TupleIsCodeAndRegisters ==
  \A r1 \in Regs, r2 \in Regs, L1 \in Blocks, L2 \in Blocks :
    (/\ Analyzed /\ ~call.AllowModify
     /\ EndsWithBranchThenJump(call.MBB, "BLT", r1, r2, L1, L2))
    => /\ ret = Ret(FALSE)
       /\ TBB = L1 /\ FBB = L2
       /\ Cond = <<CreateImm(CCMASK_CMP_LT), CreateReg(r1), CreateReg(r2)>>

\* C1 amended: the same, the condition tuple being {LT, r1, r2, L1}: the code
\* followed by every explicit operand of the branch, its target included.
C1_TupleIsCodeAndAllOperands ==
  \A r1 \in Regs, r2 \in Regs, L1 \in Blocks, L2 \in Blocks :
    (/\ Analyzed /\ ~call.AllowModify
     /\ EndsWithBranchThenJump(call.MBB, "BLT", r1, r2, L1, L2))
    => /\ ret = Ret(FALSE)
       /\ TBB = L1 /\ FBB = L2
       /\ Cond = <<CreateImm(CCMASK_CMP_LT), CreateReg(r1), CreateReg(r2),
                   CreateMBB(L1)>>
       /\ MBB = call.MBB

C1_Witness ==
  /\ Analyzed /\ ~call.AllowModify
  /\ EndsWithBranchThenJump(call.MBB, "BLT", "r1", "r2", "L1", "L2")
  /\ ret = Ret(FALSE) /\ TBB = "L1" /\ FBB = "L2" /\ Len(Cond) = 4

\* Two conditional branches of the run of B, at i above j, to different blocks.
TwoDestinations(B, i, j) ==
  /\ i < j /\ InRun(B, i) /\ InRun(B, j)
  /\ IsCondBranchToBlock(B[i]) /\ IsCondBranchToBlock(B[j])
  /\ Dest(B[i]) # Dest(B[j])

NoJumpBetween(B, i, j) == \A k \in (i + 1)..(j - 1) : ~IsJumpToBlock(B[k])

\* C3 as stated: AnalyzeBranch on a block whose run holds two conditional
\* branches to different blocks returns true (unanalyzable), in both modes.
C3_TwoDestinationsUnanalyzable ==
  (/\ Analyzed
   /\ \E i \in 1..Len(call.MBB), j \in 1..Len(call.MBB) :
        TwoDestinations(call.MBB, i, j))
  => ret = Ret(TRUE)

\* C3 amended: AnalyzeBranch returns true (unanalyzable), in both modes, on a
\* block whose run holds two conditional branches to different blocks with no
\* unconditional jump to a block between them.
C3_AdjacentTwoDestinationsUnanalyzable ==
  (/\ Analyzed
   /\ \E i \in 1..Len(call.MBB), j \in 1..Len(call.MBB) :
        TwoDestinations(call.MBB, i, j) /\ NoJumpBetween(call.MBB, i, j))
  => ret = Ret(TRUE)

C3_Witness ==
  /\ Analyzed /\ call.AllowModify /\ ret = Ret(TRUE)
  /\ Len(call.MBB) = 2
  /\ TwoDestinations(call.MBB, 1, 2)
  /\ isBranch(call.MBB[1]).Cond = CCMASK_CMP_LE
  /\ isBranch(call.MBB[2]).Cond = CCOr(CCMASK_CMP_GT, CCMASK_CMP_UO)

\* The run of B is the single jump to the layout successor that ends B.
EndsWithFallThroughJump(B) ==
  /\ Len(B) >= 1
  /\ B[Len(B)] = Jump(LayoutSuccessor)
  /\ RunIsSuffixFrom(B, Len(B))

C9_ResultConsistent ==
  (Analyzed /\ ret = Ret(FALSE))
  => /\ Cond # <<>> =>
          \E i \in 1..Len(call.MBB) :
            /\ IsCondBranchToBlock(call.MBB[i])
            /\ Cond = PushCond(isBranch(call.MBB[i]).Cond, call.MBB[i])
            /\ TBB = Dest(call.MBB[i])
     /\ Cond = <<>> => FBB = NoMBB

(***************************************************************************)
(* InsertBranch.                                                           *)
(***************************************************************************)
Inserted(B, n) == [ret |-> Ret(n), fatal |-> NoFatal, MBB |-> B]
InsertAbort(B, msg) == [ret |-> NoRet, fatal |-> msg, MBB |-> B]

\* The opcode the switch on Cond[0] selects; "none" in the default case.
BranchOpcodeFor(CC) ==
  CASE CC = CCMASK_CMP_EQ -> "BEQ"
    [] CC = CCMASK_CMP_NE -> "BNE"
    [] CC = CCMASK_CMP_LT -> "BLT"
    [] CC = CCOr(CCMASK_CMP_LT, CCMASK_CMP_UO) -> "BLTU"
    [] CC = CCMASK_CMP_GE -> "BGE"
    [] CC = CCOr(CCMASK_CMP_GE, CCMASK_CMP_UO) -> "BGEU"
    [] OTHER -> "none"

\* InsertBranch returning Count when FBB is set.
InsertBranch_NoTwoWayCheck(B, T, F, C) ==
  IF T = NoMBB
  THEN InsertAbort(B, "InsertBranch must not be told to insert a fallthrough")
  ELSE IF Len(C) > 4
  THEN InsertAbort(B, "RISCV branch conditions have less than four components!")
  ELSE IF C = <<>>
  THEN IF F # NoMBB
       THEN InsertAbort(B, "Unconditional branch with multiple successors!")
       ELSE Inserted(Append(B, BuildMI("J", <<CreateMBB(T)>>)), 1)
  ELSE
    LET opc == BranchOpcodeFor(getImm(C[1])) IN
    IF opc = "none" THEN InsertAbort(B, "Invalid branch condition code!")
    ELSE Inserted(Append(B, BuildMI(opc, <<CreateReg(getReg(C[2])),
                                            CreateReg(getReg(C[3])),
                                            CreateMBB(T)>>)),
                  IF F # NoMBB THEN 2 ELSE 1)

InsertBranch(B, T, F, C) ==
  IF T = NoMBB
  THEN InsertAbort(B, "InsertBranch must not be told to insert a fallthrough")
  ELSE IF Len(C) > 4
  THEN InsertAbort(B, "RISCV branch conditions have less than four components!")
  ELSE IF C = <<>>
  THEN \* Unconditional branch
       IF F # NoMBB
       THEN InsertAbort(B, "Unconditional branch with multiple successors!")
       ELSE Inserted(Append(B, BuildMI("J", <<CreateMBB(T)>>)), 1)
  ELSE \* Conditional branch
    LET opc == BranchOpcodeFor(getImm(C[1])) IN
    IF opc = "none" THEN InsertAbort(B, "Invalid branch condition code!")
    ELSE
      LET B2 == Append(B, BuildMI(opc, <<CreateReg(getReg(C[2])),
                                          CreateReg(getReg(C[3])),
                                          CreateMBB(T)>>))
      IN IF F # NoMBB
         THEN InsertAbort(B2, "Can not insert two-way branch!")
         ELSE Inserted(B2, 1)

PredicateCodes ==
  {CCMASK_CMP_EQ, CCMASK_CMP_NE,
   CCMASK_CMP_LT, CCOr(CCMASK_CMP_LT, CCMASK_CMP_UO),
   CCMASK_CMP_GE, CCOr(CCMASK_CMP_GE, CCMASK_CMP_UO),
   CCMASK_CMP_GT, CCOr(CCMASK_CMP_GT, CCMASK_CMP_UO),
   CCMASK_CMP_LE, CCOr(CCMASK_CMP_LE, CCMASK_CMP_UO)}

\* The tuples a caller passes: none, or a code with the two registers.
CondTuples ==
  {<<>>} \cup
  {<<CreateImm(c), CreateReg(a), CreateReg(b)>> :
     c \in PredicateCodes \cup {CCMASK_ANY}, a \in Regs, b \in Regs}

InitInsert == MBB = <<>> /\ Fresh

\* The caller sets TBB, FBB and Cond and calls InsertBranch(MBB, TBB, FBB, Cond).
InsertBranchCall ==
  /\ fatal = NoFatal
  /\ Len(MBB) < MaxInserted
  /\ \E T \in Blocks \cup {NoMBB}, F \in Blocks \cup {NoMBB}, C \in CondTuples :
       LET r == InsertBranch(MBB, T, F, C) IN
       /\ TBB' = T /\ FBB' = F /\ Cond' = C
       /\ MBB' = r.MBB /\ ret' = r.ret /\ fatal' = r.fatal
       /\ call' = [op |-> "InsertBranch", MBB |-> MBB]
  /\ UNCHANGED <<I, Count, Reg, NumVirtRegs>>

NextInsert == InsertBranchCall \/ AnalyzeBranchCall

SpecInsert == InitInsert /\ [][NextInsert]_vars

(***************************************************************************)
(* ReverseBranchCondition.                                                 *)
(***************************************************************************)
\* The switch with the LT case giving GT.
ReverseCode_LTtoGT(CC) ==
  CASE CC = CCMASK_CMP_EQ -> CCMASK_CMP_NE
    [] CC = CCMASK_CMP_NE -> CCMASK_CMP_EQ
    [] CC = CCMASK_CMP_LT -> CCMASK_CMP_GT
    [] CC = CCMASK_CMP_GE -> CCMASK_CMP_LT
    [] CC = CCOr(CCMASK_CMP_LT, CCMASK_CMP_UO) -> CCOr(CCMASK_CMP_GE, CCMASK_CMP_UO)
    [] CC = CCOr(CCMASK_CMP_GE, CCMASK_CMP_UO) -> CCOr(CCMASK_CMP_LT, CCMASK_CMP_UO)
    [] CC = CCMASK_CMP_GT -> CCMASK_CMP_LE
    [] CC = CCMASK_CMP_LE -> CCMASK_CMP_GT
    [] CC = CCOr(CCMASK_CMP_GT, CCMASK_CMP_UO) -> CCOr(CCMASK_CMP_LE, CCMASK_CMP_UO)
    [] CC = CCOr(CCMASK_CMP_LE, CCMASK_CMP_UO) -> CCOr(CCMASK_CMP_GT, CCMASK_CMP_UO)
    [] OTHER -> {}

\* The code the switch on Cond[0] sets; {} in the default case.
ReverseCode(CC) ==
  CASE CC = CCMASK_CMP_EQ -> CCMASK_CMP_NE
    [] CC = CCMASK_CMP_NE -> CCMASK_CMP_EQ
    [] CC = CCMASK_CMP_LT -> CCMASK_CMP_GE
    [] CC = CCMASK_CMP_GE -> CCMASK_CMP_LT
    [] CC = CCOr(CCMASK_CMP_LT, CCMASK_CMP_UO) -> CCOr(CCMASK_CMP_GE, CCMASK_CMP_UO)
    [] CC = CCOr(CCMASK_CMP_GE, CCMASK_CMP_UO) -> CCOr(CCMASK_CMP_LT, CCMASK_CMP_UO)
    [] CC = CCMASK_CMP_GT -> CCMASK_CMP_LE
    [] CC = CCMASK_CMP_LE -> CCMASK_CMP_GT
    [] CC = CCOr(CCMASK_CMP_GT, CCMASK_CMP_UO) -> CCOr(CCMASK_CMP_LE, CCMASK_CMP_UO)
    [] CC = CCOr(CCMASK_CMP_LE, CCMASK_CMP_UO) -> CCOr(CCMASK_CMP_GT, CCMASK_CMP_UO)
    [] OTHER -> {}

ReverseBranchCondition(C) ==
  IF Len(C) > 4 THEN [ret |-> NoRet, fatal |-> "Invalid branch condition!", Cond |-> C]
  ELSE
    LET to == ReverseCode(getImm(C[1])) IN
    IF to = {} THEN [ret |-> NoRet, fatal |-> "Invalid branch condition!", Cond |-> C]
    ELSE [ret |-> Ret(FALSE), fatal |-> NoFatal, Cond |-> [C EXCEPT ![1].val = to]]

\* The tuples ReverseBranchCondition is given: what a caller builds and what
\* AnalyzeBranch returns (the code, the registers, the target operand).
ReverseTuples ==
  (CondTuples \ {<<>>}) \cup
  {<<CreateImm(c), CreateReg(a), CreateReg(b), CreateMBB(T)>> :
     c \in PredicateCodes \cup {CCMASK_ANY}, a \in Regs, b \in Regs, T \in Blocks}

InitReverse ==
  /\ MBB = <<>> /\ TBB = NoMBB /\ FBB = NoMBB
  /\ Cond \in ReverseTuples
  /\ ret = NoRet /\ fatal = NoFatal /\ call = NoCall
  /\ I = 0 /\ Count = 0 /\ Reg = NoReg /\ NumVirtRegs = 0

ReverseBranchConditionCall ==
  /\ fatal = NoFatal
  /\ LET r == ReverseBranchCondition(Cond) IN
       /\ Cond' = r.Cond /\ ret' = r.ret /\ fatal' = r.fatal
       /\ call' = [op |-> "ReverseBranchCondition", Cond |-> Cond]
  /\ UNCHANGED <<MBB, TBB, FBB, I, Count, Reg, NumVirtRegs>>

NextReverse == ReverseBranchConditionCall

SpecReverse == InitReverse /\ [][NextReverse]_vars

(***************************************************************************)
(* Claims about InsertBranch and ReverseBranchCondition.                   *)
(***************************************************************************)
InsertableCodes ==
  {CCMASK_CMP_EQ, CCMASK_CMP_NE,
   CCMASK_CMP_LT, CCOr(CCMASK_CMP_LT, CCMASK_CMP_UO),
   CCMASK_CMP_GE, CCOr(CCMASK_CMP_GE, CCMASK_CMP_UO)}

InsertCalled == call.op = "InsertBranch"

\* InsertBranch(block, T, no false target, {c, r1, r2}) on the empty block,
\* c one of the six codes: the state it leaves.
InsertedOnEmpty ==
  /\ InsertCalled /\ call.MBB = <<>>
  /\ TBB # NoMBB /\ FBB = NoMBB
  /\ Len(Cond) = 3 /\ getImm(Cond[1]) \in InsertableCodes

\* From that state, the step that calls AnalyzeBranch (in either mode)
\* returns false, the code of its tuple is c and its TBB is T.
RoundTripStep ==
  (InsertedOnEmpty /\ call'.op = "AnalyzeBranch")
  => /\ ret' = Ret(FALSE) /\ fatal' = NoFatal
     /\ TBB' = TBB
     /\ Cond' # <<>> /\ getImm(Cond'[1]) = getImm(Cond[1])

\* C2: InsertBranch accepts each of the six codes with one target, and
\* AnalyzeBranch run next on the block recovers the code and the target.
C2_InsertAnalyzeRoundTrip ==
  /\ [](InsertedOnEmpty => (fatal = NoFatal /\ ret = Ret(1) /\ Len(MBB) = 1))
  /\ [][RoundTripStep]_vars

C2_Witness ==
  /\ Analyzed /\ ret = Ret(FALSE)
  /\ call.MBB = <<CondBranch("BGEU", "r2", "r1", "L1")>>
  /\ TBB = "L1"
  /\ getImm(Cond[1]) = CCOr(CCMASK_CMP_GE, CCMASK_CMP_UO)

InvalidBranchShape ==
  {"Unconditional branch with multiple successors!",
   "Can not insert two-way branch!"}
InvalidConditionForInsert == {"Invalid branch condition code!"}

\* InsertBranch was called with both targets set and the empty tuple or a
\* tuple whose code is in S.
TwoTargetInsert(S) ==
  /\ InsertCalled /\ TBB # NoMBB /\ FBB # NoMBB
  /\ Cond = <<>> \/ (Cond # <<>> /\ getImm(Cond[1]) \in S)

\* C7 as stated: InsertBranch with both targets set fails with
\* InvalidBranchShape, for the empty tuple and each of the ten codes.
C7_TwoTargetsInvalidShape ==
  TwoTargetInsert(PredicateCodes) => fatal \in InvalidBranchShape

\* C7 amended: InsertBranch with both targets set fails with
\* InvalidBranchShape for the empty tuple and each of the six codes it can
\* encode; for GT, GT|UNSIGNED, LE, LE|UNSIGNED it fails with
\* InvalidConditionForInsert, and the block is left as it was.
C7_TwoTargetsFail ==
  /\ TwoTargetInsert(InsertableCodes) => fatal \in InvalidBranchShape
  /\ (TwoTargetInsert(PredicateCodes \ InsertableCodes) /\ Cond # <<>>)
       => (fatal \in InvalidConditionForInsert /\ MBB = call.MBB)

C7_Witness ==
  /\ InsertCalled /\ TBB = "L1" /\ FBB = "L2"
  /\ Cond # <<>> /\ getImm(Cond[1]) = CCMASK_CMP_NE
  /\ fatal = "Can not insert two-way branch!"

Reversed == call.op = "ReverseBranchCondition"

\* Two reversals in a row give back the tuple the first one was given.
ReverseTwiceStep ==
  (Reversed /\ fatal = NoFatal /\ call'.op = "ReverseBranchCondition")
  => (fatal' = NoFatal /\ Cond' = call.Cond)

\* C6: on each of the ten predicate codes ReverseBranchCondition succeeds,
\* gives another of the ten codes, leaves the operands alone, and applied
\* twice gives the code back; on ANY it fails with InvalidCondition.
C6_ReverseInvolution ==
  /\ [](Reversed =>
         /\ getImm(call.Cond[1]) \in PredicateCodes =>
              /\ fatal = NoFatal /\ ret = Ret(FALSE)
              /\ getImm(Cond[1]) \in PredicateCodes
              /\ getImm(Cond[1]) # getImm(call.Cond[1])
              /\ Len(Cond) = Len(call.Cond)
              /\ \A i \in 2..Len(Cond) : Cond[i] = call.Cond[i]
         /\ getImm(call.Cond[1]) = CCMASK_ANY =>
              fatal = "Invalid branch condition!")
  /\ [][ReverseTwiceStep]_vars

C6_Witness ==
  /\ Reversed /\ fatal = NoFatal
  /\ getImm(call.Cond[1]) = CCOr(CCMASK_CMP_GT, CCMASK_CMP_UO)
  /\ getImm(Cond[1]) = CCOr(CCMASK_CMP_LE, CCMASK_CMP_UO)

(***************************************************************************)
(* RemoveBranch, one iteration of its loop at a time.  While the loop runs *)
(* I is the iterator (1 .. Len(MBB) + 1); I = 0 when RemoveBranch is not   *)
(* running.                                                                *)
(***************************************************************************)
EraseAt(B, p) == SubSeq(B, 1, p - 1) \o SubSeq(B, p + 1, Len(B))

Looping(B, i, n) == [MBB |-> B, I |-> i, Count |-> n, ret |-> NoRet]
Returning(B, n) == [MBB |-> B, I |-> 0, Count |-> n, ret |-> Ret(n)]

\* The loop body stopping at a debug entry.
RemoveBranchIteration_StopAtDebug(B, i, n) ==
  IF i = 1 THEN Returning(B, n)
  ELSE
    LET J == i - 1
        MI == B[J]
    IN
    IF isDebugValue(MI) THEN Returning(B, n)
    ELSE IF ~isBranch(MI).isBranch THEN Returning(B, n)
    ELSE IF ~isMBB(isBranch(MI).Target) THEN Returning(B, n)
    ELSE Looping(EraseAt(B, J), Len(B), n + 1)

\* while (I != MBB.begin()) { ... } return Count;
RemoveBranchIteration(B, i, n) ==
  IF i = 1 THEN Returning(B, n)
  ELSE
    LET J == i - 1
        MI == B[J]
    IN
    IF isDebugValue(MI) THEN Looping(B, J, n)
    ELSE IF ~isBranch(MI).isBranch THEN Returning(B, n)
    ELSE IF ~isMBB(isBranch(MI).Target) THEN Returning(B, n)
    ELSE \* erased; I = MBB.end() of the shorter block
         Looping(EraseAt(B, J), Len(B), n + 1)

Call_ == BuildMI("JAL", <<[kind |-> "sym", val |-> "f"]>>)

RemoveInstrs ==
  {Jump("L1"), CondBranch("BEQ", "r1", "r2", "L1"),
   CondBranch("BLEU", "r1", "r2", "L2"),
   IndirectJump, Call_, Return_, Plain, DebugValue}

InitRemove == MBB = <<>> /\ Fresh

BuildRemove ==
  /\ I = 0
  /\ Len(MBB) < MaxRemoveLen
  /\ \E MI \in RemoveInstrs : MBB' = Append(MBB, MI)
  /\ ret' = NoRet /\ call' = NoCall /\ Count' = 0
  /\ UNCHANGED <<TBB, FBB, Cond, fatal, I, Reg, NumVirtRegs>>

\* RemoveBranch(MBB) is entered: I = MBB.end(), Count = 0.
RemoveBranchCall ==
  /\ I = 0
  /\ I' = Len(MBB) + 1 /\ Count' = 0 /\ ret' = NoRet
  /\ call' = [op |-> "RemoveBranch", MBB |-> MBB]
  /\ UNCHANGED <<MBB, TBB, FBB, Cond, fatal, Reg, NumVirtRegs>>

RemoveBranchStep ==
  /\ I # 0
  /\ LET r == RemoveBranchIteration(MBB, I, Count) IN
       MBB' = r.MBB /\ I' = r.I /\ Count' = r.Count /\ ret' = r.ret
  /\ UNCHANGED <<TBB, FBB, Cond, fatal, call, Reg, NumVirtRegs>>

NextRemove == BuildRemove \/ RemoveBranchCall \/ RemoveBranchStep

\* The loop is sequential code: once entered it keeps running.
SpecRemove == InitRemove /\ [][NextRemove]_vars /\ WF_vars(RemoveBranchStep)

(***************************************************************************)
(* Claim about RemoveBranch.                                               *)
(***************************************************************************)
IsBranchToBlock(MI) == isBranch(MI).isBranch /\ isMBB(isBranch(MI).Target)

RECURSIVE WithoutFrom(_, _, _)
WithoutFrom(B, D, i) ==
  IF i > Len(B) THEN <<>>
  ELSE (IF i \in D THEN <<>> ELSE <<B[i]>>) \o WithoutFrom(B, D, i + 1)
\* B with the instructions at the positions D taken out, the rest in order.
Without(B, D) == WithoutFrom(B, D, 1)

NonDebug(B) == {i \in 1..Len(B) : ~isDebugValue(B[i])}
Last(S) == CHOOSE i \in S : \A j \in S : j <= i

RemoveReturned == call.op = "RemoveBranch" /\ I = 0

RemoveResult ==
  RemoveReturned =>
    /\ ret = Ret(Len(call.MBB) - Len(MBB))
    /\ \E D \in SUBSET (1..Len(call.MBB)) :
         /\ Ret(Cardinality(D)) = ret
         /\ \A i \in D : IsBranchToBlock(call.MBB[i])
         /\ MBB = Without(call.MBB, D)
    /\ NonDebug(MBB) # {} => ~IsBranchToBlock(MBB[Last(NonDebug(MBB))])

\* C8: RemoveBranch terminates; it returns the number of instructions it
\* erased, each a branch (per isBranch) to a block; every other instruction
\* stays, in order; and afterwards the last non-debug instruction, if any, is
\* not a branch to a block.
C8_RemoveBranch ==
  /\ []RemoveResult
  /\ (I # 0) ~> (I = 0)

C8_Witness ==
  /\ RemoveReturned /\ ret = Ret(2)
  /\ call.MBB = <<Jump("L1"), DebugValue, CondBranch("BLEU", "r1", "r2", "L2")>>
  /\ MBB = <<DebugValue>>

(***************************************************************************)
(* loadImmediate.  Value is an int64_t and TLC's integers are 32 bits      *)
(* wide, so a value v is held as the pair of its arithmetic shift v >> 12  *)
(* (hi) and its low twelve bits v & 0xFFF (lo): v = hi * 2^12 + lo with    *)
(* 0 <= lo < 2^12, which is exact for every v.  The register class chosen  *)
(* from STI.isRV64() only sizes the new register and is left out.          *)
(***************************************************************************)
Int64(hi, lo) == [hi |-> hi, lo |-> lo]
ShiftRight12(V) == V.hi                     \* Value >> 12
And0xFFF(V) == V.lo                         \* 0xFFF & Value
And0x800(V) == (V.lo \div 2^11) * 2^11      \* Value & 0x800
And0xFFFFF(n) == n % 2^20                   \* 0xFFFFF & n

\* isInt<12>(Value): -2^11 <= Value < 2^11
isInt12(V) ==
  \/ V.hi = 0 /\ V.lo < 2^11
  \/ V.hi = -1 /\ V.lo >= 2^11

\* isInt<32>(Value): -2^31 <= Value < 2^31
isInt32(V) == -(2^19) <= V.hi /\ V.hi < 2^19

\* BuildMI(MBB, MBBI, ...): the instruction is inserted before MBBI.
InsertBefore(B, MBBI, MI) ==
  SubSeq(B, 1, MBBI - 1) \o <<MI>> \o SubSeq(B, MBBI, Len(B))

upper20(V) ==
  IF And0x800(V) # 0
  THEN And0xFFFFF(ShiftRight12(V))
  ELSE And0xFFFFF(ShiftRight12(V) + 1)

lower12(V) == And0xFFF(V)

\* loadImmediate without the assert on isInt<32>.
loadImmediate_NoRangeAssert(B, MBBI, n, V) ==
  LET R == VirtReg(n + 1) IN
  IF isInt12(V)
  THEN [MBB |-> InsertBefore(B, MBBI,
                  BuildMI("ADDI", <<CreateReg(R), CreateReg("zero"), CreateImm(V)>>)),
        Reg |-> R, NumVirtRegs |-> n + 1, fatal |-> NoFatal]
  ELSE
    LET B1 == InsertBefore(B, MBBI,
                BuildMI("LUI", <<CreateReg(R), CreateImm(upper20(V))>>))
        B2 == InsertBefore(B1, MBBI + 1,
                BuildMI("LLI", <<CreateReg(R), CreateReg("zero"),
                                 CreateImm(lower12(V))>>))
    IN [MBB |-> B2, Reg |-> R, NumVirtRegs |-> n + 1, fatal |-> NoFatal]

\* B is the block, MBBI the insertion point, n the registers created so far.
loadImmediate(B, MBBI, n, V) ==
  LET R == VirtReg(n + 1) IN      \* createVirtualRegister(RC)
  IF isInt12(V)
  THEN [MBB |-> InsertBefore(B, MBBI,
                  BuildMI("ADDI", <<CreateReg(R), CreateReg("zero"), CreateImm(V)>>)),
        Reg |-> R, NumVirtRegs |-> n + 1, fatal |-> NoFatal]
  ELSE IF ~isInt32(V)
  THEN [MBB |-> B, Reg |-> R, NumVirtRegs |-> n + 1,
        fatal |-> "Huge values not handled yet"]
  ELSE
    LET B1 == InsertBefore(B, MBBI,
                BuildMI("LUI", <<CreateReg(R), CreateImm(upper20(V))>>))
        B2 == InsertBefore(B1, MBBI + 1,
                BuildMI("LLI", <<CreateReg(R), CreateReg("zero"),
                                 CreateImm(lower12(V))>>))
    IN [MBB |-> B2, Reg |-> R, NumVirtRegs |-> n + 1, fatal |-> NoFatal]

\* The values tried: those within ImmSpread of the boundaries of the 12-bit
\* and the 32-bit signed ranges, of zero and of bit 11, and 5000.
HiValues ==
  ((-(2^19) - ImmSpread)..(-(2^19) + ImmSpread))
  \cup ((-1 - ImmSpread)..ImmSpread)
  \cup ((2^19 - ImmSpread)..(2^19 + ImmSpread))
LoValues ==
  (0..ImmSpread)
  \cup ((2^11 - ImmSpread)..(2^11 + ImmSpread))
  \cup ((2^12 - 1 - ImmSpread)..(2^12 - 1))
  \cup {904}        \* 0x388, the low bits of 5000
ImmValues == {Int64(h, l) : h \in HiValues, l \in LoValues}

InitImm == MBB \in {<<>>, <<Plain>>} /\ Fresh

\* loadImmediate(MBB, MBBI, &Reg, Value)
loadImmediateCall ==
  /\ fatal = NoFatal
  /\ NumVirtRegs < MaxLoads
  /\ \E V \in ImmValues, MBBI \in 1..(Len(MBB) + 1) :
       LET r == loadImmediate(MBB, MBBI, NumVirtRegs, V) IN
       /\ MBB' = r.MBB /\ Reg' = r.Reg /\ NumVirtRegs' = r.NumVirtRegs
       /\ fatal' = r.fatal
       /\ call' = [op |-> "loadImmediate", MBB |-> MBB, MBBI |-> MBBI,
                   Value |-> V, NumVirtRegs |-> NumVirtRegs]
  /\ UNCHANGED <<TBB, FBB, Cond, ret, I, Count>>

NextImm == loadImmediateCall

SpecImm == InitImm /\ [][NextImm]_vars

(***************************************************************************)
(* Claims about loadImmediate.                                             *)
(***************************************************************************)
\* V >= hi * 2^12 + lo  and  V < hi * 2^12 + lo
AtLeast(V, hi, lo) == V.hi > hi \/ (V.hi = hi /\ V.lo >= lo)
Below(V, hi, lo) == ~AtLeast(V, hi, lo)

Fits12(V) == AtLeast(V, -1, 2^11) /\ Below(V, 0, 2^11)       \* -2^11 <= v < 2^11
Fits32(V) == AtLeast(V, -(2^19), 0) /\ Below(V, 2^19, 0)     \* -2^31 <= v < 2^31
\* |v| >= 2^31, that is v >= 2^31 or v <= -2^31
AbsAtLeast2To31(V) == AtLeast(V, 2^19, 0) \/ Below(V, -(2^19), 1)

Loaded == call.op = "loadImmediate"
\* The instructions the call put in the block, in order.
Emitted ==
  SubSeq(MBB, call.MBBI, call.MBBI + (Len(MBB) - Len(call.MBB)) - 1)
RestKept ==
  /\ SubSeq(MBB, 1, call.MBBI - 1) = SubSeq(call.MBB, 1, call.MBBI - 1)
  /\ SubSeq(MBB, call.MBBI + Len(Emitted), Len(MBB))
       = SubSeq(call.MBB, call.MBBI, Len(call.MBB))
\* Every emitted instruction defines *Reg, a register not created before.
DefineFreshReg ==
  /\ \A i \in 1..Len(Emitted) : getOperand(Emitted[i], 0) = CreateReg(Reg)
  /\ Reg.vreg > call.NumVirtRegs
  /\ RestKept

OneOrTwoInstructions ==
  /\ Fits12(call.Value) =>
       /\ fatal = NoFatal /\ Len(Emitted) = 1 /\ DefineFreshReg
  /\ (Fits32(call.Value) /\ ~Fits12(call.Value)) =>
       /\ fatal = NoFatal /\ Len(Emitted) = 2 /\ DefineFreshReg
       /\ Emitted[1].Opcode = "LUI" /\ Emitted[2].Opcode = "LLI"

\* C5 as stated: one instruction for -2^11 <= v < 2^11, two (LUI then LLI)
\* for the other v with -2^31 <= v < 2^31, failure with ConstantTooLarge for
\* |v| >= 2^31; the emitted instructions define one fresh virtual register.
C5_InstructionCount ==
  Loaded =>
    /\ OneOrTwoInstructions
    /\ AbsAtLeast2To31(call.Value) => fatal = "Huge values not handled yet"

\* C5 amended: the same, the failure with ConstantTooLarge being for
\* v >= 2^31 and for v < -2^31 (v = -2^31 is loaded with two instructions).
C5_InstructionCountInt32 ==
  Loaded =>
    /\ OneOrTwoInstructions
    /\ ~Fits32(call.Value) =>
         (fatal = "Huge values not handled yet" /\ MBB = call.MBB)

C5_Witness ==
  /\ Loaded /\ fatal = NoFatal
  /\ call.Value = Int64(-(2^19), 0)
  /\ Len(Emitted) = 2 /\ Reg = VirtReg(1)

\* C10: for v in the 32-bit range and not in the 12-bit range, the operands
\* of the two instructions give v back:
\*   (upper20 * 2^12 + signExtend12(lower12)) mod 2^32 = v mod 2^32.
\* signExtend12(l) = l - 2^12 * bit11(l), so the left side is
\* ((upper20 - bit11(l)) mod 2^20) * 2^12 + l, compared here part by part.
C10_SplitGivesValueBack ==
  (Loaded /\ fatal = NoFatal /\ ~Fits12(call.Value))
  => LET u == getImm(getOperand(Emitted[1], 1))
         l == getImm(getOperand(Emitted[2], 2))
     IN /\ (u - (l \div 2^11)) % 2^20 = call.Value.hi % 2^20
        /\ l = call.Value.lo

====
